---- MODULE Spec2Model ----
(***************************************************************************)
(* A model of Telegram/SourceFiles/boxes/background_preview_box.cpp:       *)
(* the wallpaper preview box (BackgroundPreviewBox), the background decode *)
(* it starts under a binary guard, its blur checkbox, apply/share, the     *)
(* entry point BackgroundPreviewBox::Start and the frame generator of the  *)
(* ServiceCheck check view.                                                *)
(***************************************************************************)
EXTENDS Integers, Sequences, FiniteSets

(***************************************************************************)
(* Bounds of the model.                                                    *)
(***************************************************************************)
\* Number of binary-guard flags (heap cells) that can exist at once.
MaxGuards == 3

GuardIds == 1..MaxGuards

\* The empty image / pixmap (QImage().isNull(), QPixmap().isNull()).
Null == "null"

(***************************************************************************)
(* State of the preview box.                                               *)
(*   phase       "created" (constructed), "shown" (prepare ran),           *)
(*               "closing" (closeBox called), "destroyed"                  *)
(*   _paper      the previewed Data::WallPaper; its document and thumbnail *)
(*               are the variables doc and thumb                           *)
(*   doc         "none" | "idle" | "loading" | "loaded" | "failed"         *)
(*   thumb       "none" | "pending" | "loaded"                             *)
(*   decodable   whether the document's bytes decode to a non-null image   *)
(*   tasks       the closures in flight on the thread pool / main queue    *)
(*   guards      the shared flags of the binary guards                     *)
(*   dirty       a repaint was requested by update()                       *)
(*   bgId        Window::Theme::Background()->id()                         *)
(*   chatBg      what setChatBackground was called with                    *)
(*   requests    InstallWallPaper requests sent                            *)
(*   last        the operation that ran last                               *)
(*   blurCall    the state checkBlurAnimationStart was last entered in     *)
(***************************************************************************)
VARIABLES phase, _paper, doc, thumb, decodable,
          _full, _scaled, _blurred, _fadeOutThumbnail, _fadeIn, _radial,
          _blur, _serviceBg, _generating, shareButton, dirty,
          tasks, guards, bgId, chatBg, requests, clipboard, toast,
          last, blurCall,
          slug, params, colorSlug, startPc, startResult, shown, apiCalls,
          pending,
          duration, toggled, _data, index, count, asserted, filled

\* BackgroundPreviewBox::Start: its arguments, whether FromColorSlug accepts
\* the slug, its progress and result, the boxes shown by Ui::show, the
\* calls of requestWallPaper and whether the request is unanswered.
startVars == <<slug, params, colorSlug, startPc, startResult, shown,
               apiCalls, pending>>

\* ServiceCheck::Generator: the style's duration, the animation value of the
\* last paintFrame (in units of 1/Resolution), the ready vector of the
\* style's Frames (<<>>: no entry in _data), the index and count of the last
\* paintFrame, whether every Assert/Expects passed, whether the last
\* paintFrame called FillFrame.
frameVars == <<duration, toggled, _data, index, count, asserted, filled>>

vars == <<startVars, frameVars, phase, _paper, doc, thumb, decodable,
          _full, _scaled, _blurred, _fadeOutThumbnail, _fadeIn, _radial,
          _blur, _serviceBg, _generating, shareButton, dirty,
          tasks, guards, bgId, chatBg, requests, clipboard, toast,
          last, blurCall>>

\* The fields of the box that painting shows.
boxFields == <<_paper, _full, _scaled, _blurred, _fadeOutThumbnail, _fadeIn,
               _radial, _blur, _serviceBg, shareButton, dirty>>

NoCall == [called |-> FALSE, fadeIn |-> FALSE, fadeOut |-> Null,
           blurred |-> Null, scaled |-> Null, exists |-> FALSE,
           flag |-> FALSE, checked |-> FALSE]

\* The whole state as one record, so that a handler is a function of it.
Cur ==
    [phase |-> phase, paper |-> _paper, doc |-> doc, thumb |-> thumb,
     full |-> _full, scaled |-> _scaled, blurred |-> _blurred,
     fadeOut |-> _fadeOutThumbnail, fadeIn |-> _fadeIn, radial |-> _radial,
     blur |-> _blur, serviceBg |-> _serviceBg, generating |-> _generating,
     shareButton |-> shareButton, dirty |-> dirty,
     tasks |-> tasks, guards |-> guards, bgId |-> bgId, chatBg |-> chatBg,
     requests |-> requests, clipboard |-> clipboard, toast |-> toast,
     blurCall |-> NoCall]

Commit(W, op) ==
    /\ phase' = W.phase
    /\ _paper' = W.paper
    /\ doc' = W.doc
    /\ thumb' = W.thumb
    /\ _full' = W.full
    /\ _scaled' = W.scaled
    /\ _blurred' = W.blurred
    /\ _fadeOutThumbnail' = W.fadeOut
    /\ _fadeIn' = W.fadeIn
    /\ _radial' = W.radial
    /\ _blur' = W.blur
    /\ _serviceBg' = W.serviceBg
    /\ _generating' = W.generating
    /\ shareButton' = W.shareButton
    /\ dirty' = W.dirty
    /\ tasks' = W.tasks
    /\ guards' = W.guards
    /\ bgId' = W.bgId
    /\ chatBg' = W.chatBg
    /\ requests' = W.requests
    /\ clipboard' = W.clipboard
    /\ toast' = W.toast
    /\ blurCall' = W.blurCall
    /\ last' = op
    /\ UNCHANGED <<decodable, startVars, frameVars>>

\* A handler runs once and its result becomes the next state.
Run(W, op) == \E V \in {W} : Commit(V, op)

(***************************************************************************)
(* base::binary_guard: two halves share one flag, which is true while both *)
(* halves exist.  "both": both halves exist; "one": one half was           *)
(* destroyed; "free": both were (the flag is deleted).                     *)
(***************************************************************************)
Alive(W, g) == g # 0 /\ W.guards[g] = "both"

Release(gs, g) ==
    IF g = 0 THEN gs
    ELSE [gs EXCEPT ![g] = IF @ = "both" THEN "one" ELSE "free"]

FreeGuards(gs) == {g \in GuardIds : gs[g] = "free"}

make_binary_guard(gs) ==
    CHOOSE g \in FreeGuards(gs) : \A h \in FreeGuards(gs) : g <= h

\* A closure in flight.
Task(stage, g, image, scaled, blurred, pattern) ==
    [stage |-> stage, guard |-> g, image |-> image, scaled |-> scaled,
     blurred |-> blurred, pattern |-> pattern]

(***************************************************************************)
(* Image helpers, on image tokens: "thumb" is the thumbnail's original,    *)
(* "img" the decoded document, Null the null image.                        *)
(***************************************************************************)
\* Images::prepare to the box width; blur: Images::Option::Blurred is set.
PrepareScaledNonPattern(image, blur) ==
    CASE image = Null -> Null
      [] image = "thumb" -> IF blur THEN "thumbBlurry" ELSE "thumbScaled"
      [] image = "thumbBlurredBg" -> "thumbBlurred"
      [] image = "img" -> "full"
      [] image = "imgBlurredBg" -> "fullBlurred"

\* ColorizePattern recolours the pixels of a pattern; the token is kept.
PrepareScaledFromFull(image, patternBackground, blur) ==
    PrepareScaledNonPattern(image, blur)

\* Data::PrepareBlurredBackground.
PrepareBlurredBackground(image) ==
    CASE image = Null -> Null
      [] image = "thumb" -> "thumbBlurredBg"
      [] image = "img" -> "imgBlurredBg"

patternBackgroundColor(W) == W.paper.isPattern /\ W.paper.hasColor

(***************************************************************************)
(* Methods of BackgroundPreviewBox.                                        *)
(***************************************************************************)
updateServiceBg(W, background) ==
    IF background # "none" THEN [W EXCEPT !.serviceBg = background] ELSE W

startFadeInFrom(W, previous) ==
    [W EXCEPT !.fadeOut = previous, !.fadeIn = TRUE]

\* setScaledFromImage with the fault of enabling the checkbox whenever it
\* exists.
setScaledFromImageAlwaysEnables(W, image, blurred) ==
    LET W1 == updateServiceBg(W, image)
        W2 == IF W1.full # Null THEN startFadeInFrom(W1, W1.scaled) ELSE W1
        W3 == [W2 EXCEPT !.scaled = image, !.blurred = blurred]
    IN  IF W3.blur.exists
        THEN [W3 EXCEPT !.blur.disabled = FALSE]
        ELSE W3

setScaledFromImage(W, image, blurred) ==
    LET W1 == updateServiceBg(W, image)
        W2 == IF W1.full # Null THEN startFadeInFrom(W1, W1.scaled) ELSE W1
        W3 == [W2 EXCEPT !.scaled = image, !.blurred = blurred]
    IN  IF W3.blur.exists /\ (W3.doc = "none" \/ W3.full # Null)
        THEN [W3 EXCEPT !.blur.disabled = FALSE]
        ELSE W3

\* The value setScaledFromThumb returns.
setScaledFromThumbOk(W) ==
    /\ W.thumb = "loaded"
    /\ ~(W.paper.isPattern /\ W.doc # "none")

setScaledFromThumb(W) ==
    IF ~setScaledFromThumbOk(W) THEN W
    ELSE LET scaled == PrepareScaledFromFull("thumb",
                                              patternBackgroundColor(W),
                                              W.doc # "none")
             blurred == IF W.doc # "none" \/ W.paper.isPattern THEN Null
                        ELSE PrepareScaledNonPattern(
                                 PrepareBlurredBackground("thumb"), FALSE)
         IN  setScaledFromImage(W, scaled, blurred)

\* checkBlurAnimationStart with the fault of fading from the pixmap of the
\* new state instead of the one shown before.
checkBlurAnimationStartSwapped(W) ==
    IF \/ W.fadeIn
       \/ W.blurred = Null
       \/ ~W.blur.exists
       \/ W.paper.blurred = W.blur.checked
    THEN W
    ELSE LET W1 == [W EXCEPT !.paper.blurred = W.blur.checked]
         IN  startFadeInFrom(W1, IF W1.paper.blurred THEN W1.blurred
                                 ELSE W1.scaled)

checkBlurAnimationStart(W) ==
    IF \/ W.fadeIn
       \/ W.blurred = Null
       \/ ~W.blur.exists
       \/ W.paper.blurred = W.blur.checked
    THEN W
    ELSE LET W1 == [W EXCEPT !.paper.blurred = W.blur.checked]
         IN  startFadeInFrom(W1, IF W1.paper.blurred THEN W1.scaled
                                 ELSE W1.blurred)

\* A call of checkBlurAnimationStart, with the state it was entered in kept.
CallCheckBlur(W) ==
    [checkBlurAnimationStart(W) EXCEPT !.blurCall =
        [called |-> TRUE, fadeIn |-> W.fadeIn, fadeOut |-> W.fadeOut,
         blurred |-> W.blurred, scaled |-> W.scaled, exists |-> W.blur.exists,
         flag |-> W.paper.blurred, checked |-> W.blur.checked]]

\* Data::ReadImageAsync: starts the read on the pool, returns the guard.
ReadImageAsync(W) ==
    LET g == make_binary_guard(W.guards)
    IN  [W EXCEPT !.tasks = @ \cup {Task("read", g, Null, Null, Null, FALSE)},
                  !.guards = Release([@ EXCEPT ![g] = "both"], W.generating),
                  !.generating = g]

\* checkLoadedDocument with the fault of not testing _generating.
checkLoadedDocumentUnguarded(W) ==
    IF \/ W.full # Null
       \/ W.doc = "none"
       \/ W.doc # "loaded"
    THEN W
    ELSE ReadImageAsync(W)

checkLoadedDocument(W) ==
    IF \/ W.full # Null
       \/ W.doc = "none"
       \/ W.doc # "loaded"
       \/ Alive(W, W.generating)
    THEN W
    ELSE ReadImageAsync(W)

\* The lambda generateCallback of checkLoadedDocument, run on the main thread.
generateCallback(W, image) ==
    LET g == make_binary_guard(W.guards)
    IN  [W EXCEPT !.tasks = @ \cup {Task("scale", g, image, Null, Null,
                                         patternBackgroundColor(W))},
                  !.guards = Release([@ EXCEPT ![g] = "both"], W.generating),
                  !.generating = g]

\* The completion with the fault of not testing its guard.
onMainCompletionUnguarded(W, t) ==
    LET W1 == [W EXCEPT !.full = t.image]
        W2 == setScaledFromImage(W1, t.scaled, t.blurred)
    IN  [W2 EXCEPT !.dirty = TRUE]

\* The crl::on_main lambda of checkLoadedDocument (lines 725-738).
onMainCompletion(W, t) ==
    IF ~Alive(W, t.guard) THEN W
    ELSE LET W1 == [W EXCEPT !.full = t.image]
             W2 == setScaledFromImage(W1, t.scaled, t.blurred)
         IN  [W2 EXCEPT !.dirty = TRUE]


createBlurCheckbox(W) ==
    [W EXCEPT !.blur = [exists |-> TRUE, disabled |-> TRUE,
                        checked |-> W.paper.blurred]]

prepare(W) ==
    LET W1 == [W EXCEPT !.shareButton = W.paper.hasShareUrl]
        W2 == updateServiceBg(W1, IF W1.paper.hasColor THEN "color"
                                  ELSE "none")
        \* _paper.loadDocument()
        W3 == [W2 EXCEPT !.doc = IF @ = "idle" THEN "loading" ELSE @]
        W4 == [W3 EXCEPT !.radial = (W3.doc = "loading")]
        W5 == IF W4.thumb # "none" /\ ~W4.paper.isPattern
              THEN createBlurCheckbox(W4) ELSE W4
        W6 == setScaledFromThumb(W5)
    IN  checkLoadedDocument(W6)

\* apply with the fault of computing install after setChatBackground ran.
applyInstallAfter(W, moved, setNow) ==
    LET newId == IF setNow THEN W.paper.id ELSE W.bgId
        install == W.paper.id # newId /\ W.paper.isCloud
    IN  [W EXCEPT !.chatBg = Append(@, [paper |-> W.paper, image |-> W.full]),
                  !.full = IF moved THEN Null ELSE @,
                  !.bgId = newId,
                  !.requests = IF install THEN @ + 1 ELSE @,
                  !.phase = "closing"]

\* install is computed before setChatBackground runs. moved: the callee
\* took the image out of _full; setNow: it installed the paper at once.
apply(W, moved, setNow) ==
    LET install == W.paper.id # W.bgId /\ W.paper.isCloud
    IN  [W EXCEPT !.chatBg = Append(@, [paper |-> W.paper, image |-> W.full]),
                  !.full = IF moved THEN Null ELSE @,
                  !.bgId = IF setNow THEN W.paper.id ELSE @,
                  !.requests = IF install THEN @ + 1 ELSE @,
                  !.phase = "closing"]

\* share with the fault of closing the box as apply does.
shareAndClose(W) ==
    [W EXCEPT !.clipboard = "shareUrl", !.toast = TRUE, !.phase = "closing"]

share(W) ==
    [W EXCEPT !.clipboard = "shareUrl", !.toast = TRUE]

\* step_radial with the fault of not calling checkLoadedDocument.
step_radialNoCheck(W, timer, elapsed) ==
    LET finished == W.doc # "loading"
        W1 == [W EXCEPT !.radial = ~(finished /\ elapsed)]
    IN  IF timer THEN [W1 EXCEPT !.dirty = TRUE] ELSE W1

\* elapsed: st::radialDuration passed since the progress last changed.
step_radial(W, timer, elapsed) ==
    LET finished == W.doc # "loading"
        W1 == [W EXCEPT !.radial = ~(finished /\ elapsed)]
        W2 == IF timer THEN [W1 EXCEPT !.dirty = TRUE] ELSE W1
    IN  checkLoadedDocument(W2)

paintRadial(W, elapsed) ==
    IF W.radial THEN step_radial(W, FALSE, elapsed) ELSE W

\* fin: _fadeIn.current(ms, 1.) found the fade finished.
paintImage(W, fin) ==
    LET W1 == [W EXCEPT !.fadeIn = @ /\ ~fin]
    IN  CallCheckBlur(W1)

paintEvent(W, fin, elapsed) ==
    LET color == W.paper.hasColor
    IN  IF ~color \/ W.paper.isPattern
        THEN IF W.scaled # Null \/ setScaledFromThumbOk(W)
             THEN LET W1 == IF W.scaled # Null THEN W
                            ELSE setScaledFromThumb(W)
                  IN  paintRadial(paintImage(W1, fin), elapsed)
             ELSE IF ~color THEN W
             ELSE paintRadial(W, elapsed)
        ELSE W

(***************************************************************************)
(* The actions: one per handler, callback or scheduled step.               *)
(***************************************************************************)
BoxAlive == phase \in {"created", "shown", "closing"}

\* A guard flag is left for another make_binary_guard (the model's bound).
CanAlloc == FreeGuards(guards) # {}

Papers ==
    [hasColor : BOOLEAN, isPattern : BOOLEAN, hasShareUrl : BOOLEAN,
     isCloud : BOOLEAN, id : {1, 2}, blurred : BOOLEAN]

BoxInit ==
    /\ phase = "created"
    /\ _paper \in Papers
    /\ doc \in {"none", "idle", "loaded"}
    /\ thumb \in {"none", "pending", "loaded"}
    /\ decodable \in (IF doc = "none" THEN {TRUE} ELSE BOOLEAN)
    /\ _full = Null
    /\ _scaled = Null
    /\ _blurred = Null
    /\ _fadeOutThumbnail = Null
    /\ _fadeIn = FALSE
    /\ _radial = FALSE
    /\ _blur = [exists |-> FALSE, disabled |-> FALSE, checked |-> FALSE]
    /\ _serviceBg = "none"
    /\ _generating = 0
    /\ shareButton = FALSE
    /\ dirty = FALSE
    /\ tasks = {}
    /\ guards = [g \in GuardIds |-> "free"]
    /\ bgId = 1
    /\ chatBg = <<>>
    /\ requests = 0
    /\ clipboard = "other"
    /\ toast = FALSE
    /\ last = "init"
    /\ blurCall = NoCall

\* Start has not been called.
StartIdle ==
    /\ slug = <<>>
    /\ params = "none"
    /\ colorSlug = FALSE
    /\ startPc = "idle"
    /\ startResult = FALSE
    /\ shown = <<>>
    /\ apiCalls = 0
    /\ pending = FALSE

\* No check view has been painted.
FramesIdle ==
    /\ duration = 0
    /\ toggled = 0
    /\ _data = <<>>
    /\ index = 0
    /\ count = 0
    /\ asserted = TRUE
    /\ filled = FALSE

Init == BoxInit /\ StartIdle /\ FramesIdle

Prepare ==
    /\ phase = "created"
    /\ CanAlloc
    /\ Run([prepare(Cur) EXCEPT !.phase = "shown"], "prepare")

Apply ==
    /\ phase = "shown"
    /\ \E moved \in BOOLEAN, setNow \in BOOLEAN :
          Run(apply(Cur, moved, setNow), "apply")

Share ==
    /\ phase = "shown"
    /\ shareButton
    /\ Run(share(Cur), "share")

\* The cancel button: closeBox().
Cancel ==
    /\ phase = "shown"
    /\ Run([Cur EXCEPT !.phase = "closing"], "cancel")

\* The user clicks the blur checkbox: checkedChanges fires.
ToggleBlur ==
    /\ phase = "shown"
    /\ _blur.exists
    /\ ~_blur.disabled
    /\ Run([CallCheckBlur([Cur EXCEPT !.blur.checked = ~@])
                  EXCEPT !.dirty = TRUE], "toggle")

Paint ==
    /\ phase \in {"shown", "closing"}
    /\ CanAlloc
    /\ \E fin \in BOOLEAN, elapsed \in BOOLEAN :
          Run(paintEvent([Cur EXCEPT !.dirty = FALSE], fin, elapsed),
                 "paint")

\* The animation timer steps _radial.
StepRadial ==
    /\ phase \in {"shown", "closing"}
    /\ _radial
    /\ CanAlloc
    /\ \E elapsed \in BOOLEAN :
          Run(step_radial(Cur, TRUE, elapsed), "step_radial")

\* The animation timer steps _fadeIn; its callback is update().
FadeTick ==
    /\ phase \in {"shown", "closing"}
    /\ _fadeIn
    /\ \E fin \in BOOLEAN :
          Run([Cur EXCEPT !.fadeIn = ~fin, !.dirty = TRUE], "fade")

\* The downloader finishes the document: downloaderTaskFinished -> update().
DocLoaded ==
    /\ doc = "loading"
    /\ Run([Cur EXCEPT !.doc = "loaded", !.dirty = @ \/ BoxAlive],
              "doc_loaded")

DocFailed ==
    /\ doc = "loading"
    /\ Run([Cur EXCEPT !.doc = "failed"], "doc_failed")

ThumbLoaded ==
    /\ thumb = "pending"
    /\ Run([Cur EXCEPT !.thumb = "loaded", !.dirty = @ \/ BoxAlive],
              "thumb_loaded")

\* The box is deleted: ~binary_guard of _generating runs.
Destroy ==
    /\ phase \in {"shown", "closing"}
    /\ Run([Cur EXCEPT !.phase = "destroyed",
                          !.guards = Release(@, _generating),
                          !.generating = 0], "destroy")

\* The pool thread of Data::ReadImageAsync reads and decodes the file.
ReadWorker ==
    \E t \in tasks :
        /\ t.stage = "read"
        /\ Run([Cur EXCEPT !.tasks = (@ \ {t}) \cup
                      {[t EXCEPT !.stage = "readDone",
                                 !.image = IF decodable THEN "img"
                                           ELSE Null]}], "read_worker")

\* crl::on_main(guard, ...) of ReadImageAsync: calls generateCallback if the
\* guard is alive; the closure and its guard die afterwards.
ReadDoneMain ==
    \E t \in tasks :
        /\ t.stage = "readDone"
        /\ CanAlloc
        /\ LET W0 == [Cur EXCEPT !.tasks = @ \ {t}]
               W1 == IF Alive(W0, t.guard) THEN generateCallback(W0, t.image)
                     ELSE W0
           IN  Run([W1 EXCEPT !.guards = Release(@, t.guard)], "read_done")

\* The crl::async lambda of generateCallback (lines 712-739) on the pool.
ScaleWorker ==
    \E t \in tasks :
        /\ t.stage = "scale"
        /\ Run([Cur EXCEPT !.tasks = (@ \ {t}) \cup
                      {[t EXCEPT
                          !.stage = "scaleDone",
                          !.scaled = PrepareScaledFromFull(
                              t.image, t.pattern, FALSE),
                          !.blurred = IF t.pattern THEN Null
                              ELSE PrepareScaledNonPattern(
                                  PrepareBlurredBackground(t.image),
                                  FALSE)]}], "scale_worker")

\* The crl::on_main lambda of lines 725-738 runs and is destroyed.
ScaleDoneMain ==
    \E t \in tasks :
        /\ t.stage = "scaleDone"
        /\ LET W0 == [Cur EXCEPT !.tasks = @ \ {t}]
               W1 == onMainCompletion(W0, t)
           IN  Run([W1 EXCEPT !.guards = Release(@, t.guard)],
                      "scale_done")

Next ==
    \/ Prepare
    \/ Apply
    \/ Share
    \/ Cancel
    \/ ToggleBlur
    \/ Paint
    \/ StepRadial
    \/ FadeTick
    \/ DocLoaded
    \/ DocFailed
    \/ ThumbLoaded
    \/ Destroy
    \/ ReadWorker
    \/ ReadDoneMain
    \/ ScaleWorker
    \/ ScaleDoneMain

Spec == Init /\ [][Next]_vars

\* The values the variables take; the bound MaxGuards never stops a handler.
TypeOK ==
    /\ phase \in {"created", "shown", "closing", "destroyed"}
    /\ _generating \in 0..MaxGuards
    /\ requests \in 0..1
    /\ CanAlloc


(***************************************************************************)
(* BackgroundPreviewBox::Start.  A slug is a run-length encoded string: a  *)
(* sequence of runs <<ch, n>>, n copies of the character with code ch.     *)
(***************************************************************************)
kMaxWallPaperSlugLength == 255

\* Longest run-length encoding of a slug.
MaxRuns == 2

\* Character codes next to and inside the classes the check tells apart:
\* - . / 0 9 : @ A Z [ _ ` a z {
Alphabet ==
    {45, 46, 47, 48, 57, 58, 64, 65, 90, 91, 95, 96, 97, 122, 123}

RunLengths ==
    {1, kMaxWallPaperSlugLength - 1, kMaxWallPaperSlugLength}

Slugs ==
    UNION {[1..n -> Alphabet \X RunLengths] : n \in 0..MaxRuns}

RECURSIVE size(_)
size(s) == IF s = <<>> THEN 0 ELSE Head(s)[2] + size(Tail(s))

\* The predicate of ranges::find_if in IsValidWallPaperSlug.
BadSlugChar(ch) ==
    /\ ch # 46
    /\ ch # 95
    /\ ch # 45
    /\ (ch < 48 \/ ch > 57)
    /\ (ch < 97 \/ ch > 122)
    /\ (ch < 65 \/ ch > 90)

\* IsValidWallPaperSlug with the fault of rejecting the longest slug.
IsValidWallPaperSlugOffByOne(s) ==
    IF size(s) = 0 \/ size(s) >= kMaxWallPaperSlugLength THEN FALSE
    ELSE ~\E i \in 1..Len(s) : BadSlugChar(s[i][1])

IsValidWallPaperSlug(s) ==
    IF size(s) = 0 \/ size(s) > kMaxWallPaperSlugLength THEN FALSE
    ELSE ~\E i \in 1..Len(s) : BadSlugChar(s[i][1])

PreviewBox(paper, p) == [kind |-> "preview", paper |-> paper, params |-> p]

InformBox == [kind |-> "inform", paper |-> "none", params |-> "none"]

\* The done callback with the fault of dropping the URL params.
onWallPaperDoneNoParams(result, p) == PreviewBox(result, "none")

\* The done callback handed to requestWallPaper.
onWallPaperDone(result, p) == PreviewBox(result, p)

\* The fail callback handed to requestWallPaper.
onWallPaperFail == InformBox

\* Start(slug, params): the box shown (<<>>: none), whether requestWallPaper
\* is called, and the value returned.
Start(s, p, color) ==
    IF color
    THEN [show |-> <<PreviewBox("color", p)>>, request |-> FALSE,
          result |-> TRUE]
    ELSE IF ~IsValidWallPaperSlug(s)
    THEN [show |-> <<InformBox>>, request |-> FALSE, result |-> FALSE]
    ELSE [show |-> <<>>, request |-> TRUE, result |-> TRUE]

\* The box, constructed for one paper and left alone.
BoxQuiet ==
    /\ BoxInit
    /\ _paper = [hasColor |-> FALSE, isPattern |-> FALSE,
                 hasShareUrl |-> FALSE, isCloud |-> FALSE, id |-> 1,
                 blurred |-> FALSE]
    /\ doc = "none"
    /\ thumb = "none"

boxVars == <<phase, _paper, doc, thumb, decodable, boxFields, _generating,
             tasks, guards, bgId, chatBg, requests, clipboard, toast, last,
             blurCall>>

StartInit ==
    /\ BoxQuiet
    /\ FramesIdle
    /\ slug \in Slugs
    /\ params \in {"none", "intensity=50"}
    /\ colorSlug \in BOOLEAN
    /\ startPc = "idle"
    /\ startResult = FALSE
    /\ shown = <<>>
    /\ apiCalls = 0
    /\ pending = FALSE

StartCall ==
    /\ startPc = "idle"
    /\ \E r \in {Start(slug, params, colorSlug)} :
          /\ shown' = shown \o r.show
          /\ apiCalls' = IF r.request THEN apiCalls + 1 ELSE apiCalls
          /\ pending' = r.request
          /\ startResult' = r.result
    /\ startPc' = "returned"
    /\ UNCHANGED <<slug, params, colorSlug, boxVars, frameVars>>

\* The server answers with a wallpaper.
WallPaperDone ==
    /\ pending
    /\ \E result \in {"paperA", "paperB"} :
          shown' = Append(shown, onWallPaperDone(result, params))
    /\ pending' = FALSE
    /\ startPc' = "done"
    /\ UNCHANGED <<slug, params, colorSlug, startResult, apiCalls, boxVars,
                   frameVars>>

\* The request fails.
WallPaperFail ==
    /\ pending
    /\ shown' = Append(shown, onWallPaperFail)
    /\ pending' = FALSE
    /\ startPc' = "failed"
    /\ UNCHANGED <<slug, params, colorSlug, startResult, apiCalls, boxVars,
                   frameVars>>

StartNext ==
    \/ StartCall
    \/ WallPaperDone
    \/ WallPaperFail

SpecStart == StartInit /\ [][StartNext]_vars

(***************************************************************************)
(* ServiceCheck::Generator.  The animation value is toggled / Resolution.  *)
(***************************************************************************)
AnimationTimerDelta == 7

\* Largest style duration tried.
MaxDuration == 22

\* Number of steps the animation value takes between 0 and 1.
Resolution == 8

\* framesCount with the fault of one frame too few.
framesCountOffByOne(d) == (d \div AnimationTimerDelta) + 1

\* The size framesForStyle gives the ready vector of a new entry.
framesCount(d) == (d \div AnimationTimerDelta) + 2

framesForStyle(data, d) ==
    IF data # <<>> THEN data
    ELSE [i \in 1..framesCount(d) |-> FALSE]

\* int(std::round(toggled * (count - 1))) for toggled = k / Resolution.
frameIndex(k, n) == (2 * k * (n - 1) + Resolution) \div (2 * Resolution)

\* The Expects of FillFrame.
FillFrame(i, n) == n > 1 /\ (i >= 0 /\ i < n)

\* paintFrame: the new ready vector, index, count, whether the Assert and
\* the Expects passed and whether FillFrame was called.  ready[i] of the
\* code is ready[i + 1] here.
paintFrame(data, d, k) ==
    LET frames == framesForStyle(data, d)
        n == Len(frames)
        i == frameIndex(k, n)
        inRange == i >= 0 /\ i < n
        fill == inRange /\ ~frames[i + 1]
    IN  [ready |-> IF fill THEN [frames EXCEPT ![i + 1] = TRUE] ELSE frames,
         index |-> i,
         count |-> n,
         ok |-> inRange /\ (fill => FillFrame(i, n)),
         filled |-> fill]

FramesInit ==
    /\ BoxQuiet
    /\ StartIdle
    /\ duration \in 0..MaxDuration
    /\ toggled = 0
    /\ _data = <<>>
    /\ index = 0
    /\ count = 0
    /\ asserted = TRUE
    /\ filled = FALSE

\* ServiceCheck::paint with the current animation value.
PaintFrame ==
    /\ asserted
    /\ \E k \in 0..Resolution :
        \E r \in {paintFrame(_data, duration, k)} :
          /\ toggled' = k
          /\ _data' = r.ready
          /\ index' = r.index
          /\ count' = r.count
          /\ asserted' = r.ok
          /\ filled' = r.filled
    /\ UNCHANGED <<duration, boxVars, startVars>>

\* The palette changed: invalidate() clears _data.
Invalidate ==
    /\ _data # <<>>
    /\ _data' = <<>>
    /\ filled' = FALSE
    /\ UNCHANGED <<duration, toggled, index, count, asserted, boxVars,
                   startVars>>

FramesNext ==
    \/ PaintFrame
    \/ Invalidate

SpecFrames == FramesInit /\ [][FramesNext]_vars

(***************************************************************************)
(* Fairness: the animation timer keeps stepping a running animation, the   *)
(* thread pool runs every queued task and the main loop runs every queued  *)
(* callback; Ui::show calls prepare.                                       *)
(***************************************************************************)
\* The decode does not read the paper's id, share URL, cloud flag or blurred
\* flag: the fair specification starts from one value of each.
FairInit ==
    /\ Init
    /\ _paper.hasShareUrl
    /\ _paper.isCloud
    /\ _paper.id = 2
    /\ ~_paper.blurred

FairSpec ==
    /\ FairInit
    /\ [][Next]_vars
    /\ WF_vars(Prepare)
    /\ WF_vars(StepRadial)
    /\ WF_vars(ReadWorker)
    /\ WF_vars(ReadDoneMain)
    /\ WF_vars(ScaleWorker)
    /\ WF_vars(ScaleDoneMain)

(***************************************************************************)
(* The claims.                                                             *)
(***************************************************************************)

\* C1: the main-thread completion of the decode changes the box (_full,
\* _scaled, _blurred, the service background, the repaint request, ...) only
\* if its guard is alive: when the box was destroyed, or _generating no
\* longer holds the other half of the completion's guard, the completion
\* leaves every field of the box as it was.
C1_CompletionGuarded ==
    [][\A t \in tasks :
          (/\ t.stage = "scaleDone"
           /\ t \notin tasks'
           /\ (phase = "destroyed" \/ _generating # t.guard))
          => UNCHANGED <<boxFields, phase, _generating>>]_vars

C1_Witness ==
    /\ last = "scale_done"
    /\ phase = "destroyed"
    /\ decodable
    /\ _full = Null

\* A new ReadImageAsync was started by this step.
Started == \E t \in tasks' \ tasks : t.stage = "read"

C4_Apply ==
    [][last' = "apply" =>
          /\ chatBg' = Append(chatBg, [paper |-> _paper, image |-> _full])
          /\ phase' = "closing"
          /\ requests' = requests
                + (IF _paper.id # bgId /\ _paper.isCloud THEN 1 ELSE 0)]_vars

C4_Witness ==
    /\ last = "apply"
    /\ requests = 1
    /\ bgId = _paper.id
    /\ Len(chatBg) = 1

\* C5: the share button exists iff the paper has a share URL, and share
\* only sets the clipboard and shows the toast: paper, blur, images, chat
\* background, phase of the box and the requests stay as they were.
C5_Share ==
    /\ [](phase # "created" => shareButton = _paper.hasShareUrl)
    /\ [][last' = "share" =>
            /\ shareButton
            /\ clipboard' = "shareUrl"
            /\ toast'
            /\ UNCHANGED <<boxFields, phase, _generating, tasks, guards,
                           doc, thumb, bgId, chatBg, requests>>]_vars

C5_Witness ==
    /\ last = "share"
    /\ clipboard = "shareUrl"
    /\ toast
    /\ _paper.hasShareUrl

\* C6: the blur checkbox exists iff at prepare the paper has a thumbnail and
\* is no pattern; before apply it is enabled only if a scaled image is set
\* and the paper has no document or _full is decoded (so it is disabled when
\* created); once enabled it is never disabled again.
C6_BlurCheckbox ==
    /\ [](phase # "created" =>
            (_blur.exists <=> (thumb # "none" /\ ~_paper.isPattern)))
    /\ []((chatBg = <<>> /\ _blur.exists /\ ~_blur.disabled) =>
            (_scaled # Null /\ (doc = "none" \/ _full # Null)))
    /\ [][(_blur.exists /\ ~_blur.disabled) => ~_blur'.disabled]_vars

C6_Witness ==
    /\ chatBg = <<>>
    /\ _blur.exists
    /\ ~_blur.disabled
    /\ doc = "loaded"
    /\ _full # Null

\* C7: checkBlurAnimationStart leaves the paper's blurred flag and the fade
\* as they are when a fade-in is animating, no blurred pixmap exists or
\* there is no checkbox; otherwise, when the flag differs from the checkbox,
\* the flag becomes the checkbox state and a fade-in starts from the pixmap
\* shown before (_blurred when blur is turned off, _scaled when turned on).
\* No other operation changes the flag.
C7_BlurToggle ==
    /\ [](blurCall.called =>
            IF blurCall.fadeIn \/ blurCall.blurred = Null \/ ~blurCall.exists
            THEN /\ _paper.blurred = blurCall.flag
                 /\ _fadeIn = blurCall.fadeIn
                 /\ _fadeOutThumbnail = blurCall.fadeOut
            ELSE blurCall.flag # blurCall.checked =>
                 /\ _paper.blurred = blurCall.checked
                 /\ _fadeIn
                 /\ _fadeOutThumbnail =
                        (IF blurCall.checked THEN blurCall.scaled
                         ELSE blurCall.blurred)
                 /\ _fadeOutThumbnail =
                        (IF blurCall.blurred # Null /\ blurCall.flag
                         THEN blurCall.blurred ELSE blurCall.scaled))
    /\ [][_paper.blurred' # _paper.blurred => blurCall'.called]_vars

C7_Witness ==
    /\ blurCall.called
    /\ ~blurCall.fadeIn
    /\ blurCall.blurred # Null
    /\ blurCall.exists
    /\ blurCall.flag
    /\ ~blurCall.checked
    /\ _fadeIn
    /\ _fadeOutThumbnail = "fullBlurred"


\* The characters a wallpaper slug may hold: . _ - 0-9 a-z A-Z.
SlugChars == {46, 95, 45} \cup (48..57) \cup (97..122) \cup (65..90)

\* A slug of 1 to 255 characters, all of them slug characters.
ValidSlug(s) ==
    /\ size(s) >= 1
    /\ size(s) <= 255
    /\ \A i \in 1..Len(s) : s[i][1] \in SlugChars

\* C8: Start returns false exactly when the slug is no color slug and no
\* valid wallpaper slug (1 to 255 characters out of . _ - 0-9 a-z A-Z); it
\* then shows the bad-link inform box and requests nothing.  For a color
\* slug it shows the preview box at once, requests nothing, returns true.
C8_StartRejects ==
    startPc # "idle" =>
        /\ startResult = (colorSlug \/ ValidSlug(slug))
        /\ ~startResult => (shown = <<InformBox>> /\ apiCalls = 0)
        /\ colorSlug => /\ shown = <<PreviewBox("color", params)>>
                        /\ apiCalls = 0
                        /\ startResult

C8_Witness ==
    /\ startPc = "returned"
    /\ ~startResult
    /\ size(slug) = kMaxWallPaperSlugLength + 1
    /\ \A i \in 1..Len(slug) : slug[i][1] \in SlugChars
    /\ shown = <<InformBox>>

\* C9: for a valid slug that is no color slug, Start requests the wallpaper
\* once and returns true with no box shown; no box is shown while the
\* request is unanswered; a success shows only the preview box of the
\* received paper with the URL params, a failure only the inform box.
C9_StartRequests ==
    (startPc # "idle" /\ ~colorSlug /\ ValidSlug(slug)) =>
        /\ apiCalls = 1
        /\ startResult
        /\ pending <=> startPc = "returned"
        /\ startPc = "returned" => shown = <<>>
        /\ startPc = "done" =>
              \E result \in {"paperA", "paperB"} :
                  shown = <<PreviewBox(result, params)>>
        /\ startPc = "failed" => shown = <<InformBox>>

C9_Witness ==
    /\ startPc = "done"
    /\ ~colorSlug
    /\ size(slug) = kMaxWallPaperSlugLength
    /\ params # "none"
    /\ Len(shown) = 1
    /\ shown[1].kind = "preview"

\* C10: the assertions of the frame generator hold: count is
\* duration / AnimationTimerDelta + 2 > 1, and index, the rounding of
\* toggled * (count - 1), satisfies 0 <= index < count in paintFrame and in
\* every call of FillFrame.
C10_FrameAsserts ==
    /\ asserted
    /\ _data # <<>> =>
        /\ count = Len(_data)
        /\ count = (duration \div AnimationTimerDelta) + 2
        /\ count > 1
        /\ index >= 0
        /\ index < count
        /\ 2 * Resolution * index - Resolution <= 2 * toggled * (count - 1)
        /\ 2 * toggled * (count - 1) < 2 * Resolution * index + Resolution
        /\ _data[index + 1]

C10_Witness ==
    /\ _data # <<>>
    /\ filled
    /\ toggled = Resolution
    /\ index = count - 1
    /\ duration >= 2 * AnimationTimerDelta

====
